---- MODULE Spec2Model ----
(***************************************************************************)
(* Model of src/src/tokens.rs (flat-manager): the bearer-token middleware  *)
(* (TokenParserMiddleware::call, get_token, parse_authorization,           *)
(* validate_claims, check_token_async) and the ClaimsValidator capability  *)
(* checks with their pure matchers.                                        *)
(*                                                                         *)
(* Strings are sequences of one-character strings, so that strip_prefix,   *)
(* starts_with and splitn are computed on characters as the code does.     *)
(* Option and Result values are tagged records.                            *)
(***************************************************************************)
EXTENDS Integers, Sequences, FiniteSets, TLC

VARIABLES
    inner,    \* Inner: prefix, secret, optional (db is the external store)
    hdr,      \* per request: the Authorization header, None or Some(string)
    pc,       \* per request: position in call() / the downstream handler
    tok,      \* per request: the value of get_token(..)
    tnow,     \* per request: SystemTime::now() as read by validate_claims
    cl,       \* per request: check_token_async's local `claims` across the await
    dbret,    \* per request: what db.check_token(..).await resolved to
    res,      \* per request: the value of check_token(..), maybe_claims
    ext,      \* per request: req.extensions().get::<Claims>()
    resp,     \* per request: the response the middleware future resolves to
    handled,  \* per request: whether srv.call(req) was invoked
    lookups,  \* per request: number of db.check_token calls issued
    chk,      \* per request: the last ClaimsValidator call and its result
    pure      \* a call of one of the pure matcher functions

vars == <<inner, hdr, pc, tok, tnow, cl, dbret, res, ext, resp, handled, lookups, chk, pure>>

(***************************** bounds **************************************)
\* longest string handed to the pure matchers
MaxLen == 3
\* longest scope / prefixes / apps / repos list in a Claims value
MaxList == 2
\* largest time stamp (exp, now), in seconds
MaxTime == 2
\* number of request slots of the middleware
NReq == 2
\* longest text after the scheme in a header handed to parse_authorization
MaxTok == 3

(************************ Option / Result **********************************)
None == [tag |-> "None"]
Some(v) == [tag |-> "Some", val |-> v]
Ok(v) == [tag |-> "Ok", val |-> v]
Err(e) == [tag |-> "Err", err |-> e]
IsSome(o) == o.tag = "Some"
IsOk(r) == r.tag = "Ok"
IsErr(r) == r.tag = "Err"
\* Ok(())
OkUnit == Ok("unit")

(****************************** strings ************************************)
Chars == {"b", "x", "/", "."}
Str(n) == UNION {[1..k -> Chars] : k \in 0..n}
StrOver(cs, n) == UNION {[1..k -> cs] : k \in 0..n}
Lists(S, n) == UNION {[1..k -> S] : k \in 0..n}

\* str::starts_with(&self, pat: &str)
StartsWith(s, p) ==
    /\ Len(p) <= Len(s)
    /\ \A i \in 1..Len(p) : s[i] = p[i]

\* str::starts_with(&self, pat: char)
StartsWithChar(s, c) == Len(s) >= 1 /\ s[1] = c

\* str::strip_prefix: Some(rest) when s starts with p, None otherwise
StripPrefix(s, p) ==
    IF StartsWith(s, p) THEN Some(SubSeq(s, Len(p) + 1, Len(s))) ELSE None

\* mutant: "the list grants something" instead of "the list holds x"
Contains_NonEmpty(list, x) == Len(list) > 0

\* slice::contains / Iterator::any over a list
Contains(list, x) == \E i \in 1..Len(list) : list[i] = x

(*************************** pure matchers *********************************)
\* mutant: the boundary test after the prefix is dropped
sub_has_prefix_NoBoundary(required_sub, claimed_sub) ==
    StartsWith(required_sub, claimed_sub)

\* mutant: only subjects strictly below the claimed one match
sub_has_prefix_ProperOnly(required_sub, claimed_sub) ==
    LET rest == StripPrefix(required_sub, claimed_sub) IN
    IF IsSome(rest)
    THEN IF StartsWithChar(rest.val, "/") THEN TRUE ELSE FALSE
    ELSE FALSE

sub_has_prefix(required_sub, claimed_sub) ==
    LET rest == StripPrefix(required_sub, claimed_sub) IN
    IF IsSome(rest)
    THEN IF rest.val = <<>> \/ StartsWithChar(rest.val, "/") THEN TRUE ELSE FALSE
    ELSE FALSE

\* mutant: the boundary test after the prefix is dropped
id_matches_prefix_NoBoundary(id, prefix) ==
    StartsWith(id, prefix)

id_matches_prefix(id, prefix) ==
    IF prefix = <<>> THEN TRUE
    ELSE LET rest == StripPrefix(id, prefix) IN
         IF IsSome(rest)
         THEN IF rest.val = <<>> \/ StartsWithChar(rest.val, ".") THEN TRUE ELSE FALSE
         ELSE FALSE

id_matches_one_prefix(id, prefixes) ==
    \E i \in 1..Len(prefixes) : id_matches_prefix(id, prefixes[i])

\* mutant: the empty entry is no wildcard
repo_matches_claimed_NoWildcard(repo, claimed_repo) ==
    repo = claimed_repo

repo_matches_claimed(repo, claimed_repo) ==
    IF claimed_repo = <<>> THEN TRUE ELSE repo = claimed_repo

\* mutant: an empty repos list is no restriction, as for prefixes
repo_matches_one_claimed_EmptyAll(repo, claimed_repos) ==
    \/ claimed_repos = <<>>
    \/ \E i \in 1..Len(claimed_repos) : repo_matches_claimed(repo, claimed_repos[i])

repo_matches_one_claimed(repo, claimed_repos) ==
    \E i \in 1..Len(claimed_repos) : repo_matches_claimed(repo, claimed_repos[i])

(****************************** ApiError ***********************************)
\* The message is kept as the pieces of its format string and arguments.
InvalidToken(msg) == [kind |-> "InvalidToken", msg |-> msg]
NotEnoughPermissions(msg) == [kind |-> "NotEnoughPermissions", msg |-> msg]

(***************************** ClaimsScope *********************************)
ConcreteScopes ==
    {"Jobs", "Build", "Upload", "Publish", "Generate", "Download",
     "Republish", "ReviewCheck", "TokenManagement"}
ClaimsScope == ConcreteScopes \cup {"Unknown"}

\* impl Display for ClaimsScope: the Debug name, lower-cased
ScopeDisplay(scope) ==
    CASE scope = "Jobs" -> "jobs"
      [] scope = "Build" -> "build"
      [] scope = "Upload" -> "upload"
      [] scope = "Publish" -> "publish"
      [] scope = "Generate" -> "generate"
      [] scope = "Download" -> "download"
      [] scope = "Republish" -> "republish"
      [] scope = "ReviewCheck" -> "reviewcheck"
      [] scope = "TokenManagement" -> "tokenmanagement"
      [] OTHER -> "unknown"

\* Deserialize for ClaimsScope: rename_all = "lowercase", serde(other) Unknown
DeserializeScope(s) ==
    IF \E v \in ConcreteScopes : ScopeDisplay(v) = s
    THEN CHOOSE v \in ConcreteScopes : ScopeDisplay(v) = s
    ELSE "Unknown"

(******************************* Claims ************************************)
\* name, branches and token_type are never read in tokens.rs and are left out.
MkClaims(sub, exp, jti, scope, prefixes, apps, repos) ==
    [sub |-> sub, exp |-> exp, jti |-> jti, scope |-> scope,
     prefixes |-> prefixes, apps |-> apps, repos |-> repos]

(************************** ClaimsValidator ********************************)
\* mutant: the subject test is dropped
has_token_claims_func_NoSub(claims, required_sub, required_scope) ==
    IF ~Contains(claims.scope, required_scope)
    THEN Err(NotEnoughPermissions(
             <<"Not matching scope '", <<ScopeDisplay(required_scope)>>, "' in token">>))
    ELSE OkUnit

\* the closure has_token_claims hands to validate_claims
has_token_claims_func(claims, required_sub, required_scope) ==
    IF ~sub_has_prefix(required_sub, claims.sub)
    THEN Err(NotEnoughPermissions(<<"Not matching sub '", required_sub, "' in token">>))
    ELSE IF ~Contains(claims.scope, required_scope)
    THEN Err(NotEnoughPermissions(
             <<"Not matching scope '", <<ScopeDisplay(required_scope)>>, "' in token">>))
    ELSE OkUnit

\* mutant: the apps list is not consulted
has_token_prefix_func_NoApps(claims, id) ==
    IF claims.prefixes = <<>> THEN OkUnit
    ELSE IF ~id_matches_one_prefix(id, claims.prefixes)
    THEN Err(NotEnoughPermissions(<<"Id ", id, " not matching prefix in token">>))
    ELSE OkUnit

\* the closure has_token_prefix hands to validate_claims
has_token_prefix_func(claims, id) ==
    IF claims.prefixes = <<>> THEN OkUnit
    ELSE IF ~id_matches_one_prefix(id, claims.prefixes) /\ ~Contains(claims.apps, id)
    THEN Err(NotEnoughPermissions(<<"Id ", id, " not matching prefix in token">>))
    ELSE OkUnit

\* the closure has_token_repo hands to validate_claims
has_token_repo_func(claims, repo) ==
    IF ~repo_matches_one_claimed(repo, claims.repos)
    THEN Err(NotEnoughPermissions(<<"Not matching repo in token">>))
    ELSE OkUnit

\* func(claims): the three closures, told apart by the method that built them
ApplyFunc(fn, claims, args) ==
    CASE fn = "has_token_claims" -> has_token_claims_func(claims, args[1], args[2])
      [] fn = "has_token_prefix" -> has_token_prefix_func(claims, args[1])
      [] fn = "has_token_repo" -> has_token_repo_func(claims, args[1])

\* mutant: without Claims the check passes
ClaimsValidator_validate_claims_FailOpen(e, fn, args) ==
    IF IsSome(e)
    THEN [called |-> TRUE, ret |-> ApplyFunc(fn, e.val, args)]
    ELSE [called |-> FALSE, ret |-> OkUnit]

\* <HttpRequest as ClaimsValidator>::validate_claims; `called` tells whether
\* func was invoked
ClaimsValidator_validate_claims(e, fn, args) ==
    IF IsSome(e)
    THEN [called |-> TRUE, ret |-> ApplyFunc(fn, e.val, args)]
    ELSE [called |-> FALSE,
          ret |-> Err(NotEnoughPermissions(<<"No token specified">>))]

has_token_claims(e, required_sub, required_scope) ==
    ClaimsValidator_validate_claims(e, "has_token_claims", <<required_sub, required_scope>>)

has_token_prefix(e, id) ==
    ClaimsValidator_validate_claims(e, "has_token_prefix", <<id>>)

has_token_repo(e, repo) ==
    ClaimsValidator_validate_claims(e, "has_token_repo", <<repo>>)

(**************************** Token codec **********************************)
Bearer == <<"B", "e", "a", "r", "e", "r">>

\* a byte HeaderValue::to_str refuses (not visible ASCII)
OpaqueByte == "\\x80"

\* str::splitn(2, ' '): the text before the first space, and the rest if any
FirstSpace(s) ==
    IF \E i \in 1..Len(s) : s[i] = " "
    THEN CHOOSE i \in 1..Len(s) : s[i] = " " /\ \A j \in 1..(i - 1) : s[j] # " "
    ELSE 0

Splitn2(s) ==
    LET i == FirstSpace(s) IN
    IF i = 0 THEN <<s>>
    ELSE <<SubSeq(s, 1, i - 1), SubSeq(s, i + 1, Len(s))>>

\* mutant: the scheme before the first space is not looked at
parse_authorization_AnyScheme(prefix, header) ==
    IF Len(header) < 8
    THEN Err(InvalidToken(<<"Header length too short">>))
    ELSE IF \E i \in 1..Len(header) : header[i] = OpaqueByte
    THEN Err(InvalidToken(<<"Cannot convert header to string">>))
    ELSE LET parts == Splitn2(header) IN
         IF Len(parts) < 2
         THEN Err(InvalidToken(<<"No token value in header">>))
         ELSE LET token == parts[2] IN
              IF IsSome(prefix)
              THEN LET stripped == StripPrefix(token, prefix.val) IN
                   Ok(IF IsSome(stripped) THEN stripped.val ELSE token)
              ELSE Ok(token)

\* str::trim_start_matches: every leading occurrence of p removed
RECURSIVE TrimStartMatches(_, _)
TrimStartMatches(s, p) ==
    IF p # <<>> /\ StartsWith(s, p)
    THEN TrimStartMatches(SubSeq(s, Len(p) + 1, Len(s)), p)
    ELSE s

\* mutant: the prefix is removed as often as the token begins with it
parse_authorization_StripAll(prefix, header) ==
    IF Len(header) < 8
    THEN Err(InvalidToken(<<"Header length too short">>))
    ELSE IF \E i \in 1..Len(header) : header[i] = OpaqueByte
    THEN Err(InvalidToken(<<"Cannot convert header to string">>))
    ELSE LET parts == Splitn2(header) IN
         IF parts[1] # Bearer
         THEN Err(InvalidToken(<<"Token scheme is not Bearer">>))
         ELSE IF Len(parts) < 2
         THEN Err(InvalidToken(<<"No token value in header">>))
         ELSE LET token == parts[2] IN
              IF IsSome(prefix)
              THEN Ok(TrimStartMatches(token, prefix.val))
              ELSE Ok(token)

parse_authorization(prefix, header) ==
    IF Len(header) < 8
    THEN Err(InvalidToken(<<"Header length too short">>))
    ELSE IF \E i \in 1..Len(header) : header[i] = OpaqueByte
    THEN Err(InvalidToken(<<"Cannot convert header to string">>))
    ELSE LET parts == Splitn2(header) IN
         IF parts[1] # Bearer
         THEN Err(InvalidToken(<<"Token scheme is not Bearer">>))
         ELSE IF Len(parts) < 2
         THEN Err(InvalidToken(<<"No token value in header">>))
         ELSE LET token == parts[2] IN
              IF IsSome(prefix)
              THEN LET stripped == StripPrefix(token, prefix.val) IN
                   Ok(IF IsSome(stripped) THEN stripped.val ELSE token)
              ELSE Ok(token)

\* mutant: the optional flag is read the wrong way round
get_token_Inverted(optional, prefix, header) ==
    IF ~IsSome(header)
    THEN IF ~optional THEN Ok(None)
         ELSE Err(InvalidToken(<<"No Authorization header">>))
    ELSE LET token == parse_authorization(prefix, header.val) IN
         IF IsErr(token) THEN token ELSE Ok(Some(token.val))

\* mutant: in optional mode a header that does not parse counts as no token
get_token_OptionalSwallows(optional, prefix, header) ==
    IF ~IsSome(header)
    THEN IF optional THEN Ok(None)
         ELSE Err(InvalidToken(<<"No Authorization header">>))
    ELSE LET token == parse_authorization(prefix, header.val) IN
         IF IsErr(token)
         THEN IF optional THEN Ok(None) ELSE token
         ELSE Ok(Some(token.val))

get_token(optional, prefix, header) ==
    IF ~IsSome(header)
    THEN IF optional THEN Ok(None)
         ELSE Err(InvalidToken(<<"No Authorization header">>))
    ELSE LET token == parse_authorization(prefix, header.val) IN
         IF IsErr(token) THEN token ELSE Ok(Some(token.val))

(***************************************************************************)
(* jwt::decode::<Claims> is a library call.  A token is modelled as four   *)
(* characters <<key, exp, jti, grant>>: the key that signed it, the exp    *)
(* digit, the jti ("-" for none) and the letter of the payload's grants.   *)
(* Decoding fails on any other shape, on a key that is not the secret and  *)
(* on a payload without the required field sub.                            *)
(***************************************************************************)
KeyChars == {"s", "z"}
ExpDigits == <<"0", "1", "2", "3", "4", "5", "6", "7", "8", "9">>
JtiChars == {"-", "j", "k"}
GrantChars == {"u", "q", "m"}

IsDigit(c) == \E i \in 1..Len(ExpDigits) : ExpDigits[i] = c
DigitValue(c) == (CHOOSE i \in 1..Len(ExpDigits) : ExpDigits[i] = c) - 1

\* the scope strings of a payload
GrantScopeStrings(g) ==
    IF g = "u" THEN <<"upload", "download">> ELSE <<"frobnicate", "Upload">>

\* the payload deserialized into Claims (serde: scope through ClaimsScope,
\* absent lists default to empty)
PayloadClaims(token) ==
    LET g == token[4]
        strs == GrantScopeStrings(g) IN
    MkClaims(<<"b", "/", "x">>,
             DigitValue(token[2]),
             IF token[3] = "-" THEN None ELSE Some(token[3]),
             [i \in 1..Len(strs) |-> DeserializeScope(strs[i])],
             <<>>, <<>>,
             IF g = "u" THEN << <<"b">> >> ELSE <<>>)

jwt_decode(token, secret) ==
    IF \/ Len(token) # 4
       \/ token[1] \notin KeyChars
       \/ ~IsDigit(token[2])
       \/ token[3] \notin JtiChars
       \/ token[4] \notin GrantChars
    THEN Err("InvalidToken")
    ELSE IF token[1] # secret THEN Err("InvalidSignature")
    ELSE IF token[4] = "m" THEN Err("Json")
    ELSE Ok(PayloadClaims(token))

\* mutant: exp is not compared with the clock
validate_claims_NoExpiry(secret, token, now) ==
    LET token_data == jwt_decode(token, secret) IN
    IF IsErr(token_data)
    THEN Err(InvalidToken(<<"Invalid token claims">>))
    ELSE Ok(token_data.val)

\* mutant: a token is already expired in the second its exp names
validate_claims_LeqExpiry(secret, token, now) ==
    LET token_data == jwt_decode(token, secret) IN
    IF IsErr(token_data)
    THEN Err(InvalidToken(<<"Invalid token claims">>))
    ELSE LET claims == token_data.val IN
         IF claims.exp <= now
         THEN Err(InvalidToken(<<"Token is expired">>))
         ELSE Ok(claims)

\* fn validate_claims(secret, token), with the clock reading `now`
validate_claims(secret, token, now) ==
    LET token_data == jwt_decode(token, secret) IN
    IF IsErr(token_data)
    THEN Err(InvalidToken(<<"Invalid token claims">>))
    ELSE LET claims == token_data.val IN
         IF claims.exp < now
         THEN Err(InvalidToken(<<"Token is expired">>))
         ELSE Ok(claims)

\* Db::check_token, the external revocation store: what it may answer
DbErrors ==
    {[kind |-> "Revoked", msg |-> <<"token revoked">>],
     [kind |-> "Revoked", msg |-> <<"store unreachable">>]}
DbAnswers == {OkUnit} \cup {Err(e) : e \in DbErrors}

(************************** inputs of the model ****************************)
Reqs == 1..NReq
Times == 0..MaxTime

\* subjects: "", "build", "build/7", "buildx", "build/7/jobs", "x"
ClaimedSubs == {<<>>, <<"b">>, <<"b", "/", "x">>, <<"b", "x">>}
RequiredSubs == ClaimedSubs \cup {<<"b", "/", "x", "/", "b">>, <<"x">>}
\* dotted ids: "org", "org.foo", "orgfoo", "foo", "org.foo.bar"
PrefixEntries == {<<>>, <<"b">>, <<"b", ".", "x">>}
AppEntries == {<<"b", "x">>, <<"b", ".", "x">>}
Ids == {<<"b">>, <<"b", ".", "x">>, <<"b", "x">>, <<"x">>, <<"b", ".", "x", ".", "b">>}
\* repos: "stable", "beta"
RepoEntries == {<<>>, <<"b">>, <<"x">>}
RepoNames == {<<"b">>, <<"x">>, <<"b", "x">>}

\* Claims a handler may find attached: API tokens that differ in sub and
\* scope, in prefixes and apps, or in repos (absent lists are empty)
CapsClaims ==
    {MkClaims(s, MaxTime, None, sc, <<>>, <<>>, <<>>) :
        s \in ClaimedSubs, sc \in Lists(ClaimsScope, MaxList)}
    \cup {MkClaims(<<"b">>, MaxTime, None, <<"Upload">>, p, a, <<>>) :
        p \in Lists(PrefixEntries, MaxList), a \in Lists(AppEntries, MaxList)}
    \cup {MkClaims(<<"b">>, MaxTime, None, <<"Upload">>, <<>>, <<>>, rp) :
        rp \in Lists(RepoEntries, MaxList)}

\* tokens on the wire and the headers that carry them
ConfPrefix == <<"p">>
Jwts ==
    {<<k, ExpDigits[e + 1], j, g>> :
        k \in KeyChars, e \in Times, j \in {"-", "j"}, g \in GrantChars}
WireTokens ==
    Jwts \cup {ConfPrefix \o t : t \in Jwts} \cup {<<"x">>, ConfPrefix}
SomeJwt == <<"s", ExpDigits[MaxTime + 1], "-", "u">>
MalformedHeaders ==
    {<<"B">>, Bearer \o <<" ">>, Bearer \o SomeJwt,
     <<"b", "e", "a", "r", "e", "r", " ">> \o SomeJwt,
     <<"B", "a", "s", "i", "c", " ">> \o SomeJwt,
     Bearer \o <<" ", OpaqueByte>>}
HeaderStrings == {Bearer \o <<" ">> \o t : t \in WireTokens} \cup MalformedHeaders

\* headers handed to parse_authorization: a scheme word, a space or none,
\* and up to MaxTok characters; the prefixes a deployment may configure
ParseSchemes ==
    {Bearer, <<"b", "e", "a", "r", "e", "r">>, <<"B", "e", "a", "r", "e">>,
     Bearer \o <<"r">>, <<"B", "a", "s", "i", "c">>, <<>>}
ParseHeaders ==
    {sc \o sp \o t :
        sc \in ParseSchemes, sp \in {<<>>, <<" ">>},
        t \in StrOver({"p", "t", " ", OpaqueByte}, MaxTok)}
ParsePrefixes == {None, Some(<<>>), Some(<<"p">>), Some(<<"p", "t">>)}

\* subjects as paths: a required sub, and a narrower and a broader claimed sub
PathChars == {"b", "/"}
HierRequired == StrOver(PathChars, MaxLen + 2)
HierNarrower == StrOver(PathChars, MaxLen)
HierBroader == StrOver(PathChars, MaxLen - 2)
HierScopes == {<<>>, <<"Upload">>, <<"Download", "Unknown">>}

\* headers of requests in flight together: none, two tokens with different
\* jti, one without a jti, one signed with another key
ConcHeaders ==
    {None,
     Some(Bearer \o <<" ", "s", "1", "j", "u">>),
     Some(Bearer \o <<" ", "s", "1", "k", "u">>),
     Some(Bearer \o <<" ", "s", "1", "-", "u">>),
     Some(Bearer \o <<" ", "z", "1", "-", "u">>)}

NoCheck == [op |-> "none"]
NoPure == [fn |-> "none", a |-> <<>>, b |-> <<>>, ret |-> FALSE]
NoResp == [from |-> "none"]

\* everything a request slot holds before call() runs
IdleRequests ==
    /\ tok = [r \in Reqs |-> None]
    /\ tnow = [r \in Reqs |-> None]
    /\ cl = [r \in Reqs |-> None]
    /\ dbret = [r \in Reqs |-> None]
    /\ res = [r \in Reqs |-> None]
    /\ resp = [r \in Reqs |-> NoResp]
    /\ handled = [r \in Reqs |-> FALSE]
    /\ lookups = [r \in Reqs |-> 0]
    /\ chk = [r \in Reqs |-> NoCheck]

(****************************** Init ***************************************)
\* TokenParser::new / TokenParser::optional, and one request arriving
Init ==
    /\ inner \in [prefix : {None, Some(ConfPrefix)}, secret : {"s"}, optional : BOOLEAN]
    /\ \E h \in {None} \cup {Some(x) : x \in HeaderStrings} :
          hdr = [r \in Reqs |-> IF r = 1 THEN h ELSE None]
    /\ pc = [r \in Reqs |-> IF r = 1 THEN "call" ELSE "idle"]
    /\ ext = [r \in Reqs |-> None]
    /\ IdleRequests
    /\ pure = NoPure

\* a request inside the downstream handler, with or without Claims attached
InitCaps ==
    /\ inner = [prefix |-> None, secret |-> "s", optional |-> TRUE]
    /\ hdr = [r \in Reqs |-> None]
    /\ pc = [r \in Reqs |-> IF r = 1 THEN "handler" ELSE "idle"]
    /\ \E e \in {None} \cup {Some(c) : c \in CapsClaims} :
          ext = [r \in Reqs |-> IF r = 1 THEN e ELSE None]
    /\ IdleRequests
    /\ pure = NoPure

\* the arguments of a call of a pure matcher
InitMatch ==
    /\ inner = [prefix |-> None, secret |-> "s", optional |-> FALSE]
    /\ hdr = [r \in Reqs |-> None]
    /\ pc = [r \in Reqs |-> "idle"]
    /\ ext = [r \in Reqs |-> None]
    /\ IdleRequests
    /\ pure \in [fn : {"none"}, a : Str(MaxLen), b : Str(MaxLen), ret : {FALSE}]

\* the arguments of a call of parse_authorization
InitParse ==
    /\ inner = [prefix |-> None, secret |-> "s", optional |-> FALSE]
    /\ hdr = [r \in Reqs |-> None]
    /\ pc = [r \in Reqs |-> "idle"]
    /\ ext = [r \in Reqs |-> None]
    /\ IdleRequests
    /\ pure \in [fn : {"none"}, a : ParsePrefixes, b : ParseHeaders, ret : {FALSE}]

\* a required sub, two claimed subs and the scope list both Claims share
InitHier ==
    /\ inner = [prefix |-> None, secret |-> "s", optional |-> FALSE]
    /\ hdr = [r \in Reqs |-> None]
    /\ pc = [r \in Reqs |-> "idle"]
    /\ ext = [r \in Reqs |-> None]
    /\ IdleRequests
    /\ pure \in [fn : {"none"}, a : HierRequired, b : HierNarrower, c : HierBroader,
                  scope : HierScopes, ret : {FALSE}]

\* every request slot holds a request that has just arrived
InitConc ==
    /\ inner \in [prefix : {None}, secret : {"s"}, optional : BOOLEAN]
    /\ hdr \in [Reqs -> ConcHeaders]
    /\ pc = [r \in Reqs |-> "call"]
    /\ ext = [r \in Reqs |-> None]
    /\ IdleRequests
    /\ pure = NoPure

(************************ TokenParserMiddleware::call **********************)
\* get_token(self.inner.optional, prefix, &req), run inside call()
GetToken(r) ==
    /\ pc[r] = "call"
    /\ tok' = [tok EXCEPT ![r] = Some(get_token(inner.optional, inner.prefix, hdr[r]))]
    /\ pc' = [pc EXCEPT ![r] = "token"]
    /\ UNCHANGED <<inner, hdr, tnow, cl, dbret, res, ext, resp, handled, lookups, chk, pure>>

\* whether a Result<Option<String>> is Ok(Some(_))
HasToken(t) == IF IsErr(t) THEN FALSE ELSE IsSome(t.val)

\* and_then(|token| token.map(..)): no check_token future for Err or Ok(None)
NoToken(r) ==
    /\ pc[r] = "token"
    /\ LET t == tok[r].val IN
       /\ ~HasToken(t)
       /\ res' = [res EXCEPT ![r] = Some(IF IsErr(t) THEN t ELSE Ok(None))]
    /\ pc' = [pc EXCEPT ![r] = "then"]
    /\ UNCHANGED <<inner, hdr, tok, tnow, cl, dbret, ext, resp, handled, lookups, chk, pure>>

\* mutant: the store is asked about every valid token, with or without a jti
CheckTokenAsync_AlwaysLookup(r, now) ==
    /\ pc[r] = "token"
    /\ HasToken(tok[r].val)
    /\ tnow' = [tnow EXCEPT ![r] = Some(now)]
    /\ LET claims == validate_claims(inner.secret, tok[r].val.val.val, now) IN
       IF IsErr(claims)
       THEN /\ res' = [res EXCEPT ![r] = Some(claims)]
            /\ pc' = [pc EXCEPT ![r] = "then"]
            /\ UNCHANGED <<cl, lookups>>
       ELSE /\ cl' = [cl EXCEPT ![r] = Some(claims.val)]
            /\ lookups' = [lookups EXCEPT ![r] = @ + 1]
            /\ pc' = [pc EXCEPT ![r] = "lookup"]
            /\ UNCHANGED res
    /\ UNCHANGED <<inner, hdr, tok, dbret, ext, resp, handled, chk, pure>>

\* check_token_async up to its await: validate_claims, then the lookup is
\* started when the claims carry a jti
CheckTokenAsync(r, now) ==
    /\ pc[r] = "token"
    /\ HasToken(tok[r].val)
    /\ tnow' = [tnow EXCEPT ![r] = Some(now)]
    /\ LET claims == validate_claims(inner.secret, tok[r].val.val.val, now) IN
       IF IsErr(claims)
       THEN /\ res' = [res EXCEPT ![r] = Some(claims)]
            /\ pc' = [pc EXCEPT ![r] = "then"]
            /\ UNCHANGED <<cl, lookups>>
       ELSE IF IsSome(claims.val.jti)
       THEN /\ cl' = [cl EXCEPT ![r] = Some(claims.val)]
            /\ lookups' = [lookups EXCEPT ![r] = @ + 1]
            /\ pc' = [pc EXCEPT ![r] = "lookup"]
            /\ UNCHANGED res
       ELSE /\ cl' = [cl EXCEPT ![r] = Some(claims.val)]
            /\ res' = [res EXCEPT ![r] = Some(Ok(Some(claims.val)))]
            /\ pc' = [pc EXCEPT ![r] = "then"]
            /\ UNCHANGED lookups
    /\ UNCHANGED <<inner, hdr, tok, dbret, ext, resp, handled, chk, pure>>

\* mutant: a failing lookup is ignored (fails open)
check_token_async_resume_FailOpen(claims, answer) == Ok(Some(claims))

\* check_token_async after its await: `if let Err(e) = .. { return Err(e) }`,
\* else Ok(claims)
check_token_async_resume(claims, answer) ==
    IF IsErr(answer) THEN Err(answer.err) ELSE Ok(Some(claims))

\* mutant: the claims awaiting the store are kept in one slot shared by all
\* requests, so a resumed request may pick up those of another
DbReply_SharedClaims(r, answer) ==
    /\ pc[r] = "lookup"
    /\ dbret' = [dbret EXCEPT ![r] = Some(answer)]
    /\ \E q \in Reqs :
          /\ pc[q] = "lookup"
          /\ res' = [res EXCEPT ![r] = Some(check_token_async_resume(cl[q].val, answer))]
    /\ pc' = [pc EXCEPT ![r] = "then"]
    /\ UNCHANGED <<inner, hdr, tok, tnow, cl, ext, resp, handled, lookups, chk, pure>>

\* db.check_token(jti, exp).await resolves with the store's answer
DbReply(r, answer) ==
    /\ pc[r] = "lookup"
    /\ dbret' = [dbret EXCEPT ![r] = Some(answer)]
    /\ res' = [res EXCEPT ![r] = Some(check_token_async_resume(cl[r].val, answer))]
    /\ pc' = [pc EXCEPT ![r] = "then"]
    /\ UNCHANGED <<inner, hdr, tok, tnow, cl, ext, resp, handled, lookups, chk, pure>>

\* mutant: an error is logged and the request is passed on to the service
Then_ServiceOnError(r) ==
    /\ pc[r] = "then"
    /\ LET maybe_claims == res[r].val IN
       /\ ext' = [ext EXCEPT ![r] =
                   IF IsErr(maybe_claims) THEN @
                   ELSE IF IsSome(maybe_claims.val) THEN maybe_claims.val ELSE @]
       /\ handled' = [handled EXCEPT ![r] = TRUE]
       /\ pc' = [pc EXCEPT ![r] = "handler"]
       /\ UNCHANGED resp
    /\ UNCHANGED <<inner, hdr, tok, tnow, cl, dbret, res, lookups, chk, pure>>

\* mutant: the claims check_token_async held are inserted before the result
\* is matched, so also when it is an error
Then_InsertOnError(r) ==
    /\ pc[r] = "then"
    /\ LET maybe_claims == res[r].val IN
       IF IsErr(maybe_claims)
       THEN /\ resp' = [resp EXCEPT ![r] =
                          [from |-> "error_response", err |-> maybe_claims.err]]
            /\ pc' = [pc EXCEPT ![r] = "done"]
            /\ ext' = [ext EXCEPT ![r] = cl[r]]
            /\ UNCHANGED handled
       ELSE /\ ext' = [ext EXCEPT ![r] =
                          IF IsSome(maybe_claims.val) THEN maybe_claims.val ELSE @]
            /\ handled' = [handled EXCEPT ![r] = TRUE]
            /\ pc' = [pc EXCEPT ![r] = "handler"]
            /\ UNCHANGED resp
    /\ UNCHANGED <<inner, hdr, tok, tnow, cl, dbret, res, lookups, chk, pure>>

\* token.then(move |maybe_claims| ..): the error response, or the claims are
\* inserted and the service is called
Then(r) ==
    /\ pc[r] = "then"
    /\ LET maybe_claims == res[r].val IN
       IF IsErr(maybe_claims)
       THEN /\ resp' = [resp EXCEPT ![r] =
                          [from |-> "error_response", err |-> maybe_claims.err]]
            /\ pc' = [pc EXCEPT ![r] = "done"]
            /\ UNCHANGED <<ext, handled>>
       ELSE /\ ext' = [ext EXCEPT ![r] =
                          IF IsSome(maybe_claims.val) THEN maybe_claims.val ELSE @]
            /\ handled' = [handled EXCEPT ![r] = TRUE]
            /\ pc' = [pc EXCEPT ![r] = "handler"]
            /\ UNCHANGED resp
    /\ UNCHANGED <<inner, hdr, tok, tnow, cl, dbret, res, lookups, chk, pure>>

(************************* the downstream handler **************************)
\* one ClaimsValidator call of the handler and what it returned
Checked(r, op, args, out) ==
    /\ pc[r] = "handler"
    /\ chk' = [chk EXCEPT ![r] =
                 [op |-> op, args |-> args, called |-> out.called, ret |-> out.ret]]
    /\ pc' = [pc EXCEPT ![r] = "checked"]
    /\ UNCHANGED <<inner, hdr, tok, tnow, cl, dbret, res, ext, resp, handled, lookups, pure>>

HasTokenClaims(r, required_sub, required_scope) ==
    Checked(r, "has_token_claims", <<required_sub, required_scope>>,
            has_token_claims(ext[r], required_sub, required_scope))

HasTokenPrefix(r, id) ==
    Checked(r, "has_token_prefix", <<id>>, has_token_prefix(ext[r], id))

HasTokenRepo(r, repo) ==
    Checked(r, "has_token_repo", <<repo>>, has_token_repo(ext[r], repo))

\* srv.call(req) resolves with the handler's response
Respond(r) ==
    /\ pc[r] \in {"handler", "checked"}
    /\ resp' = [resp EXCEPT ![r] = [from |-> "service"]]
    /\ pc' = [pc EXCEPT ![r] = "done"]
    /\ UNCHANGED <<inner, hdr, tok, tnow, cl, dbret, res, ext, handled, lookups, chk, pure>>

(*************************** pure matcher calls ****************************)
PureCall(fn, ret) ==
    /\ pure.fn = "none"
    /\ pure' = [pure EXCEPT !.fn = fn, !.ret = ret]
    /\ UNCHANGED <<inner, hdr, pc, tok, tnow, cl, dbret, res, ext, resp, handled, lookups, chk>>

CallSubHasPrefix == PureCall("sub_has_prefix", sub_has_prefix(pure.a, pure.b))
CallIdMatchesPrefix == PureCall("id_matches_prefix", id_matches_prefix(pure.a, pure.b))
CallRepoMatchesClaimed == PureCall("repo_matches_claimed", repo_matches_claimed(pure.a, pure.b))
CallParseAuthorization ==
    PureCall("parse_authorization", parse_authorization(pure.a, pure.b))

\* Claims that differ only in sub
ClaimsWithSub(sub, scope) == MkClaims(sub, MaxTime, None, scope, <<>>, <<>>, <<>>)

\* sub_has_prefix on each pair of the three subjects, and has_token_claims
\* for the required sub against the narrower and against the broader Claims
CallHierarchy ==
    PureCall("hierarchy",
        [refl |-> <<sub_has_prefix(pure.a, pure.a), sub_has_prefix(pure.b, pure.b),
                    sub_has_prefix(pure.c, pure.c)>>,
         ab |-> sub_has_prefix(pure.a, pure.b),
         bc |-> sub_has_prefix(pure.b, pure.c),
         ac |-> sub_has_prefix(pure.a, pure.c),
         narrow |-> has_token_claims(Some(ClaimsWithSub(pure.b, pure.scope)),
                                     pure.a, "Upload").ret,
         broad |-> has_token_claims(Some(ClaimsWithSub(pure.c, pure.scope)),
                                    pure.a, "Upload").ret])

(**************************** specifications *******************************)
CapsNext ==
    \E r \in Reqs :
        \/ \E s \in RequiredSubs, sc \in ClaimsScope : HasTokenClaims(r, s, sc)
        \/ \E id \in Ids : HasTokenPrefix(r, id)
        \/ \E repo \in RepoNames : HasTokenRepo(r, repo)

Next ==
    \/ \E r \in Reqs :
        \/ GetToken(r)
        \/ NoToken(r)
        \/ \E now \in Times : CheckTokenAsync(r, now)
        \/ \E answer \in DbAnswers : DbReply(r, answer)
        \/ Then(r)
        \/ Respond(r)
    \/ CapsNext

\* the steps of the requests in flight, interleaved in any order
ConcNext ==
    \E r \in Reqs :
        \/ GetToken(r)
        \/ NoToken(r)
        \/ \E now \in Times : CheckTokenAsync(r, now)
        \/ \E answer \in DbAnswers : DbReply(r, answer)
        \/ Then(r)
        \/ Respond(r)

MatchNext == CallSubHasPrefix \/ CallIdMatchesPrefix \/ CallRepoMatchesClaimed

ParseNext == CallParseAuthorization

HierNext == CallHierarchy

\* the middleware handling a request, and the handler behind it
Spec == Init /\ [][Next]_vars
\* several requests in flight at once
SpecConc == InitConc /\ [][ConcNext]_vars
\* the capability checks of a handler, over the Claims it may find attached
SpecCaps == InitCaps /\ [][CapsNext]_vars
\* the pure matchers over all short strings
SpecMatch == InitMatch /\ [][MatchNext]_vars
\* parse_authorization over short headers and the configured prefixes
SpecParse == InitParse /\ [][ParseNext]_vars
\* sub_has_prefix as an order on subjects, and what it means for Claims
SpecHier == InitHier /\ [][HierNext]_vars

(************************* outcomes of a request ***************************)
\* the request ended with req.error_response(e), the service never called
Rejected(r) == pc[r] = "done" /\ resp[r].from = "error_response"

\* the request reached the service with Claims inserted
Authenticated(r) == handled[r] /\ IsSome(ext[r])

\* parse_authorization gave a token that jwt::decode accepts under the secret
SignedToken(r) ==
    /\ IsSome(tok[r])
    /\ HasToken(tok[r].val)
    /\ IsOk(jwt_decode(tok[r].val.val.val, inner.secret))

\* the Claims of the request's token
TokenClaims(r) == jwt_decode(tok[r].val.val.val, inner.secret).val

(***************************************************************************)
(*                              the claims                                 *)
(***************************************************************************)
\* s starts with c immediately followed by the character sep
StartsWithThen(s, c, sep) ==
    /\ Len(s) > Len(c)
    /\ SubSeq(s, 1, Len(c) + 1) = c \o <<sep>>

\* C1: sub_has_prefix(r, c) is true if and only if r equals c or r starts
\* with c immediately followed by '/'.
C1_SubHasPrefixIff ==
    pure.fn = "sub_has_prefix" =>
        (pure.ret <=> (pure.a = pure.b \/ StartsWithThen(pure.a, pure.b, "/")))

\* claimed "build" was matched against required "build/7"
C1_Witness ==
    /\ pure.fn = "sub_has_prefix"
    /\ pure.b = <<"b">>
    /\ pure.a = <<"b", "/", "x">>
    /\ pure.ret = TRUE

\* C2: id_matches_prefix(id, prefix) is true when prefix is empty, and
\* otherwise true if and only if id equals prefix or id starts with prefix
\* immediately followed by '.'.
C2_IdMatchesPrefixIff ==
    pure.fn = "id_matches_prefix" =>
        IF pure.b = <<>> THEN pure.ret = TRUE
        ELSE pure.ret <=> (pure.a = pure.b \/ StartsWithThen(pure.a, pure.b, "."))

\* prefix "org" was tried on "orgx", which only continues it, and refused
C2_Witness ==
    /\ pure.fn = "id_matches_prefix"
    /\ pure.b = <<"b">>
    /\ pure.a = <<"b", "x">>
    /\ pure.ret = FALSE

\* the members of a list
Members(list) == {list[i] : i \in 1..Len(list)}

\* C3: with Claims attached, has_token_claims(required_sub, required_scope)
\* succeeds if and only if sub_has_prefix(required_sub, claims.sub) holds and
\* claims.scope contains required_scope; otherwise the result is a
\* NotEnoughPermissions error, about the subject when the subject fails and
\* about the scope only when the subject passes.
C3_HasTokenClaimsIff ==
    \A r \in Reqs :
        (chk[r].op = "has_token_claims" /\ IsSome(ext[r])) =>
            LET claims == ext[r].val
                subOk == sub_has_prefix(chk[r].args[1], claims.sub)
                scopeOk == chk[r].args[2] \in Members(claims.scope)
                ret == chk[r].ret IN
            /\ IsOk(ret) <=> (subOk /\ scopeOk)
            /\ ~IsOk(ret) =>
                  /\ IsErr(ret)
                  /\ ret.err.kind = "NotEnoughPermissions"
                  /\ ret.err.msg[1] =
                        IF ~subOk THEN "Not matching sub '" ELSE "Not matching scope '"

\* claims {sub: "build", scope: [Download, Upload]} granted ("build/7", Upload)
C3_Witness ==
    /\ chk[1].op = "has_token_claims"
    /\ IsSome(ext[1])
    /\ ext[1].val.sub = <<"b">>
    /\ ext[1].val.scope = <<"Download", "Upload">>
    /\ chk[1].args = << <<"b", "/", "x">>, "Upload" >>
    /\ IsOk(chk[1].ret)

\* C4: with Claims attached, has_token_prefix(id) succeeds for every id when
\* claims.prefixes is empty; when it is not empty it succeeds if and only if
\* some entry of claims.prefixes matches id under id_matches_prefix or id
\* equals some entry of claims.apps, and otherwise returns NotEnoughPermissions.
C4_HasTokenPrefixIff ==
    \A r \in Reqs :
        (chk[r].op = "has_token_prefix" /\ IsSome(ext[r])) =>
            LET claims == ext[r].val
                id == chk[r].args[1]
                ret == chk[r].ret IN
            IF claims.prefixes = <<>> THEN IsOk(ret)
            ELSE /\ IsOk(ret) <=>
                      \/ \E p \in Members(claims.prefixes) : id_matches_prefix(id, p)
                      \/ id \in Members(claims.apps)
                 /\ ~IsOk(ret) => (IsErr(ret) /\ ret.err.kind = "NotEnoughPermissions")

\* an id no prefix of the token matches was granted by an exact apps entry
C4_Witness ==
    /\ chk[1].op = "has_token_prefix"
    /\ IsSome(ext[1])
    /\ ext[1].val.prefixes = << <<"b">> >>
    /\ ext[1].val.apps = << <<"b", "x">> >>
    /\ chk[1].args = << <<"b", "x">> >>
    /\ IsOk(chk[1].ret)

\* C5: with Claims attached, has_token_repo(repo) succeeds if and only if some
\* entry of claims.repos is the empty string or equals repo; and
\* repo_matches_claimed(repo, e) is true for the empty e, and for a non-empty
\* e only when repo = e.
C5_HasTokenRepoIff ==
    \A r \in Reqs :
        (chk[r].op = "has_token_repo" /\ IsSome(ext[r])) =>
            LET claims == ext[r].val
                repo == chk[r].args[1]
                ret == chk[r].ret IN
            /\ IsOk(ret) <=> \E e \in Members(claims.repos) : e = <<>> \/ e = repo
            /\ ~IsOk(ret) => (IsErr(ret) /\ ret.err.kind = "NotEnoughPermissions")
            /\ \A e \in Members(claims.repos) :
                  repo_matches_claimed(repo, e) <=> (e = <<>> \/ repo = e)

\* claims {repos: ["stable", ""]} granted "beta" through the wildcard entry
C5_Witness ==
    /\ chk[1].op = "has_token_repo"
    /\ IsSome(ext[1])
    /\ ext[1].val.repos = << <<"b">>, <<>> >>
    /\ chk[1].args = << <<"x">> >>
    /\ IsOk(chk[1].ret)

\* C10: for Claims whose scope list holds only Unknown entries,
\* has_token_claims(sub, s) fails for every concrete scope s and every sub.
C10_UnknownGrantsNothing ==
    \A r \in Reqs :
        ( /\ chk[r].op = "has_token_claims"
          /\ IsSome(ext[r])
          /\ Members(ext[r].val.scope) \subseteq {"Unknown"}
          /\ chk[r].args[2] \in ConcreteScopes ) =>
            IsErr(chk[r].ret)

\* claims {sub: "build", scope: [Unknown, Unknown]} refused ("build", Upload)
C10_Witness ==
    /\ chk[1].op = "has_token_claims"
    /\ IsSome(ext[1])
    /\ ext[1].val.sub = <<"b">>
    /\ ext[1].val.scope = <<"Unknown", "Unknown">>
    /\ chk[1].args = << <<"b">>, "Upload" >>
    /\ IsErr(chk[1].ret)

\* validate_claims has run on a correctly signed token whose exp is earlier
\* than the clock reading
SignedAndExpired(r) ==
    /\ IsSome(tnow[r])
    /\ SignedToken(r)
    /\ TokenClaims(r).exp < tnow[r].val

\* C6 as stated: a correctly signed token with exp earlier than the current
\* time never reaches Authenticated, its Claims are never attached, and it is
\* rejected with an error kind Expired distinct from InvalidToken.
C6_Original ==
    \A r \in Reqs :
        SignedAndExpired(r) =>
            /\ ~Authenticated(r) /\ ~handled[r] /\ ext[r] = None
            /\ pc[r] = "done" =>
                  /\ Rejected(r)
                  /\ resp[r].err.kind = "Expired"
                  /\ resp[r].err.kind # "InvalidToken"

\* C6 (amended): a correctly signed token with exp earlier than the current
\* time never reaches Authenticated and its Claims are never attached; it is
\* rejected with an InvalidToken error whose message is "Token is expired",
\* InvalidToken being the kind of every rejection the middleware itself
\* produces (header, signature, expiry).
C6_ExpiredRejected ==
    \A r \in Reqs :
      /\ (Rejected(r) /\ dbret[r] = None) => resp[r].err.kind = "InvalidToken"
      /\ SignedAndExpired(r) =>
            /\ ~Authenticated(r) /\ ~handled[r] /\ ext[r] = None
            /\ pc[r] \in {"then", "done"}
            /\ lookups[r] = 0
            /\ res[r] = Some(Err(InvalidToken(<<"Token is expired">>)))
            /\ pc[r] = "done" =>
                  /\ Rejected(r)
                  /\ resp[r].err = InvalidToken(<<"Token is expired">>)

\* a correctly signed token with exp = 0 was presented at time 1 and rejected
C6_Witness ==
    /\ SignedAndExpired(1)
    /\ TokenClaims(1).exp = 0
    /\ tnow[1] = Some(1)
    /\ Rejected(1)

\* C7: for a token that carries a jti, whenever the store's check_token
\* returns a failure, the request is rejected with that error, also when the
\* token is correctly signed and not expired; its Claims are never attached
\* and the request never becomes Authenticated.
C7_RevocationFailsClosed ==
    \A r \in Reqs :
        (IsSome(dbret[r]) /\ IsErr(dbret[r].val)) =>
            /\ SignedToken(r) /\ IsSome(TokenClaims(r).jti)
            /\ ~(TokenClaims(r).exp < tnow[r].val)
            /\ ~Authenticated(r) /\ ~handled[r] /\ ext[r] = None
            /\ pc[r] \in {"then", "done"}
            /\ res[r] = Some(Err(dbret[r].val.err))
            /\ pc[r] = "done" => (Rejected(r) /\ resp[r].err = dbret[r].val.err)

\* an unexpired, correctly signed token with a jti was rejected because the
\* store was unreachable
C7_Witness ==
    /\ dbret[1] = Some(Err([kind |-> "Revoked", msg |-> <<"store unreachable">>]))
    /\ SignedToken(1)
    /\ TokenClaims(1).jti = Some("j")
    /\ TokenClaims(1).exp >= tnow[1].val
    /\ Rejected(1)
    /\ resp[1].err = dbret[1].val.err

\* the optional-mode half of C8: no header gives no Claims and no error, and
\* the handler is invoked with no Claims attached
C8_OptionalPasses(r) ==
    (pc[r] # "idle" /\ hdr[r] = None /\ inner.optional) =>
        /\ pc[r] # "call" => tok[r] = Some(Ok(None))
        /\ IsSome(res[r]) => res[r] = Some(Ok(None))
        /\ ext[r] = None
        /\ lookups[r] = 0
        /\ pc[r] \in {"handler", "checked", "done"} => handled[r]
        /\ pc[r] = "done" => resp[r].from = "service"

\* C8 as stated: with no Authorization header, optional mode yields no Claims
\* and no error and invokes the handler without Claims; required mode rejects
\* with the MissingHeader error kind and does not invoke the handler.
C8_Original ==
    \A r \in Reqs :
        /\ C8_OptionalPasses(r)
        /\ (pc[r] # "idle" /\ hdr[r] = None /\ ~inner.optional) =>
              /\ ~handled[r] /\ ext[r] = None
              /\ pc[r] = "done" =>
                    (Rejected(r) /\ resp[r].err.kind = "MissingHeader")

\* C8 (amended): as stated, except that required mode rejects with an
\* InvalidToken error whose message is "No Authorization header".
C8_NoHeader ==
    \A r \in Reqs :
        /\ C8_OptionalPasses(r)
        /\ (pc[r] # "idle" /\ hdr[r] = None /\ ~inner.optional) =>
              /\ ~handled[r] /\ ext[r] = None
              /\ lookups[r] = 0
              /\ pc[r] \in {"call", "token", "then", "done"}
              /\ pc[r] # "call" =>
                    tok[r] = Some(Err(InvalidToken(<<"No Authorization header">>)))
              /\ pc[r] = "done" =>
                    /\ Rejected(r)
                    /\ resp[r].err = InvalidToken(<<"No Authorization header">>)

\* a request without header was rejected by a required-mode middleware
C8_Witness ==
    /\ hdr[1] = None
    /\ ~inner.optional
    /\ Rejected(1)
    /\ ~handled[1]

\* a request without header reached the handler of an optional-mode
\* middleware, with no Claims attached
C8_WitnessOptional ==
    /\ hdr[1] = None
    /\ inner.optional
    /\ pc[1] = "done"
    /\ handled[1]
    /\ ext[1] = None
    /\ resp[1].from = "service"

\* what the check that was called returns for the Claims c
DenialFor(r, c) ==
    ClaimsValidator_validate_claims(Some(c), chk[r].op, chk[r].args).ret

\* C9 as stated: with no Claims attached a ClaimsValidator check fails without
\* invoking the predicate, with an error of a kind distinct from the kind of
\* every policy denial.
C9_Original ==
    \A r \in Reqs :
        (chk[r].op # "none" /\ ext[r] = None) =>
            /\ ~chk[r].called
            /\ IsErr(chk[r].ret)
            /\ \A c \in CapsClaims :
                  IsErr(DenialFor(r, c)) =>
                      DenialFor(r, c).err.kind # chk[r].ret.err.kind

\* C9 (amended): with no Claims attached a ClaimsValidator check fails without
\* invoking the predicate (which is invoked whenever Claims are attached); the
\* error is NotEnoughPermissions("No token specified"), of the same kind as a
\* policy denial and told apart from every policy denial by its message.
C9_NoClaimsNoPredicate ==
    \A r \in Reqs :
        /\ (chk[r].op # "none" /\ IsSome(ext[r])) => chk[r].called
        /\ (chk[r].op # "none" /\ ext[r] = None) =>
              /\ ~chk[r].called
              /\ chk[r].ret = Err(NotEnoughPermissions(<<"No token specified">>))
              /\ \A c \in CapsClaims :
                    IsErr(DenialFor(r, c)) =>
                        /\ DenialFor(r, c).err.kind = chk[r].ret.err.kind
                        /\ DenialFor(r, c).err.msg # chk[r].ret.err.msg

\* has_token_repo was called on a request with no Claims attached
C9_Witness ==
    /\ chk[1].op = "has_token_repo"
    /\ ext[1] = None
    /\ ~chk[1].called
    /\ IsErr(chk[1].ret)

\* every stage the request r has to pass before Claims are inserted
PassedEveryStage(r) ==
    /\ IsSome(hdr[r])
    /\ IsOk(parse_authorization(inner.prefix, hdr[r].val))
    /\ tok[r] = Some(Ok(Some(parse_authorization(inner.prefix, hdr[r].val).val)))
    /\ SignedToken(r)
    /\ IsSome(tnow[r])
    /\ ~(TokenClaims(r).exp < tnow[r].val)
    /\ IF IsSome(TokenClaims(r).jti)
       THEN lookups[r] = 1 /\ dbret[r] = Some(OkUnit)
       ELSE lookups[r] = 0 /\ dbret[r] = None

\* the state half of C11: Claims are attached only after every stage passed,
\* and are the Claims of the request's own token
C11_AttachedOnlyAfterAllStages ==
    \A r \in Reqs :
        IsSome(ext[r]) =>
            /\ PassedEveryStage(r)
            /\ ext[r].val = TokenClaims(r)
            /\ handled[r]

\* the step half of C11: attached Claims are never replaced or removed
C11_AttachedOnce ==
    \A r \in Reqs : IsSome(ext[r]) => ext'[r] = ext[r]

\* C11: in every reachable state of a request, Claims are attached only if
\* the request passed every stage in order (header parsed, signature
\* verified, exp not before the current time, and, with a jti, the lookup
\* returned success); they are attached at most once and are exactly the
\* Claims decoded from the request's own token.
C11_ClaimsLifecycle ==
    /\ []C11_AttachedOnlyAfterAllStages
    /\ [][C11_AttachedOnce]_vars

\* a token with a jti passed the lookup and its Claims were attached
C11_Witness ==
    /\ IsSome(ext[1])
    /\ IsSome(ext[1].val.jti)
    /\ dbret[1] = Some(OkUnit)
    /\ pc[1] = "handler"

\* the pipeline of r has produced an error: get_token failed, or check_token
\* resolved to an error
PipelineError(r) ==
    \/ IsSome(tok[r]) /\ IsErr(tok[r].val)
    \/ IsSome(res[r]) /\ IsErr(res[r].val)

\* the error the pipeline of r produced
PipelineErrorOf(r) ==
    IF IsSome(tok[r]) /\ IsErr(tok[r].val) THEN tok[r].val.err ELSE res[r].val.err

\* the state half of C12: after an error no later stage has run, the service
\* was not called, no capability check was evaluated, and a finished request
\* carries the error response with that error
C12_ErrorStopsPipeline ==
    \A r \in Reqs :
        PipelineError(r) =>
            /\ ~handled[r]
            /\ chk[r] = NoCheck
            /\ pc[r] \in {"token", "then", "done"}
            /\ (IsSome(tok[r]) /\ IsErr(tok[r].val)) =>
                  (tnow[r] = None /\ lookups[r] = 0 /\ dbret[r] = None)
            /\ (dbret[r] = None) => lookups[r] = 0
            /\ IsSome(res[r]) => res[r].val = Err(PipelineErrorOf(r))
            /\ pc[r] = "done" =>
                  resp[r] = [from |-> "error_response", err |-> PipelineErrorOf(r)]

\* the step half of C12: a rejected request stays as it is
C12_RejectedStays ==
    \A r \in Reqs :
        Rejected(r) =>
            /\ pc'[r] = pc[r] /\ resp'[r] = resp[r] /\ ext'[r] = ext[r]
            /\ handled'[r] = handled[r] /\ chk'[r] = chk[r]
            /\ lookups'[r] = lookups[r] /\ res'[r] = res[r]

\* C12: every Rejected state is terminal: once the pipeline produces an error
\* at any stage, no later stage runs, the downstream handler is never invoked
\* for that request, no capability check is evaluated for it, and the request
\* ends with an error response carrying that stage's error.
C12_RejectedIsTerminal ==
    /\ []C12_ErrorStopsPipeline
    /\ [][C12_RejectedStays]_vars

\* a request with a header of the wrong scheme ended rejected, with no
\* capability check evaluated
C12_Witness ==
    /\ IsSome(tok[1])
    /\ tok[1].val = Err(InvalidToken(<<"Token scheme is not Bearer">>))
    /\ Rejected(1)
    /\ chk[1] = NoCheck

\* C13: for each request the revocation store is consulted at most once, only
\* after the token has passed signature verification and the expiry check and
\* only when the decoded Claims carry a jti; a valid, unexpired token without
\* a jti becomes Authenticated with zero lookups, and a request rejected
\* before the revocation stage causes zero lookups.
C13_LookupAtMostOnce ==
    \A r \in Reqs :
        /\ lookups[r] <= 1
        /\ lookups[r] = 1 =>
              /\ SignedToken(r)
              /\ IsSome(tnow[r])
              /\ ~(TokenClaims(r).exp < tnow[r].val)
              /\ IsSome(TokenClaims(r).jti)
        /\ IsSome(dbret[r]) => lookups[r] = 1
        /\ (Authenticated(r) /\ ~IsSome(ext[r].val.jti)) =>
              (lookups[r] = 0 /\ dbret[r] = None)
        /\ (Rejected(r) /\ dbret[r] = None) => lookups[r] = 0
        /\ (pc[r] \in {"then", "handler", "checked", "done"} /\ SignedToken(r)) =>
              IF TokenClaims(r).exp < tnow[r].val THEN lookups[r] = 0
              ELSE lookups[r] = (IF IsSome(TokenClaims(r).jti) THEN 1 ELSE 0)

\* a token with a jti was looked up once and its request authenticated
C13_Witness ==
    /\ Authenticated(1)
    /\ IsSome(ext[1].val.jti)
    /\ lookups[1] = 1
    /\ dbret[1] = Some(OkUnit)

\* a token without a jti authenticated with no lookup at all
C13_WitnessNoJti ==
    /\ Authenticated(1)
    /\ ~IsSome(ext[1].val.jti)
    /\ lookups[1] = 0

\* what the token future of call() resolves to, as a function of the request's
\* header, the configuration, the clock reading and the store's answer:
\* get_token, and_then check_token when there is a token
PipelineResult(optional, prefix, secret, header, now, answer) ==
    LET t == get_token(optional, prefix, header) IN
    IF IsErr(t) THEN t
    ELSE IF ~IsSome(t.val) THEN Ok(None)
    ELSE LET claims == validate_claims(secret, t.val.val, now) IN
         IF IsErr(claims) THEN claims
         ELSE IF IsSome(claims.val.jti)
              THEN check_token_async_resume(claims.val, answer)
              ELSE Ok(Some(claims.val))

\* the clock reading and the store's answer of r, where it got one
NowOf(r) == IF IsSome(tnow[r]) THEN tnow[r].val ELSE 0
AnswerOf(r) == IF IsSome(dbret[r]) THEN dbret[r].val ELSE OkUnit

\* r presented a header whose token is malformed, has an invalid signature,
\* is expired at the time of validation, or was refused by the store
PresentedBadToken(r) ==
    /\ IsSome(hdr[r])
    /\ LET p == parse_authorization(inner.prefix, hdr[r].val) IN
       IF IsErr(p) THEN TRUE
       ELSE IF IsErr(jwt_decode(p.val, inner.secret)) THEN TRUE
       ELSE \/ IsSome(tnow[r]) /\ jwt_decode(p.val, inner.secret).val.exp < tnow[r].val
            \/ IsSome(dbret[r]) /\ IsErr(dbret[r].val)

\* C17: optional mode relaxes only the absent-header case: in optional mode a
\* request that presents an Authorization header whose token is malformed,
\* has an invalid signature, is expired or is revoked is Rejected exactly as
\* in required mode; it never falls back to Unauthenticated and the
\* downstream handler is never invoked for it.
C17_OptionalOnlyForAbsentHeader ==
    \A r \in Reqs :
        (inner.optional /\ IsSome(hdr[r])) =>
            /\ IsSome(tok[r]) => tok[r].val = get_token(FALSE, inner.prefix, hdr[r])
            /\ IsSome(res[r]) =>
                  res[r].val = PipelineResult(FALSE, inner.prefix, inner.secret,
                                              hdr[r], NowOf(r), AnswerOf(r))
            /\ handled[r] => IsSome(ext[r])
            /\ PresentedBadToken(r) =>
                  /\ ~handled[r]
                  /\ ext[r] = None
                  /\ pc[r] \in {"call", "token", "lookup", "then", "done"}
                  /\ pc[r] = "done" =>
                        /\ Rejected(r)
                        /\ Err(resp[r].err) =
                              PipelineResult(FALSE, inner.prefix, inner.secret,
                                             hdr[r], NowOf(r), AnswerOf(r))

\* in optional mode a request with a Basic header ended rejected
C17_Witness ==
    /\ inner.optional
    /\ hdr[1] = Some(<<"B", "a", "s", "i", "c", " ">> \o SomeJwt)
    /\ Rejected(1)
    /\ ~handled[1]

\* the request was rejected as expired
RejectedAsExpired(r) == res[r] = Some(Err(InvalidToken(<<"Token is expired">>)))

\* C20: the expiry comparison is strict: a correctly signed token is rejected
\* as expired exactly when exp < now (whole seconds), so a token whose exp
\* equals the current second is still accepted and one with exp = now - 1 is
\* rejected.
C20_ExpiryIsStrict ==
    \A r \in Reqs :
        (SignedToken(r) /\ IsSome(tnow[r])) =>
            LET exp == TokenClaims(r).exp
                now == tnow[r].val IN
            /\ RejectedAsExpired(r) <=> exp < now
            /\ exp = now =>
                  /\ ~RejectedAsExpired(r)
                  /\ cl[r] = Some(TokenClaims(r))
                  /\ (~IsSome(TokenClaims(r).jti)) => res[r] = Some(Ok(Some(TokenClaims(r))))
            /\ exp = now - 1 => (RejectedAsExpired(r) /\ cl[r] = None)

\* a token with exp = 1 was validated in second 1 and its request authenticated
C20_Witness ==
    /\ SignedToken(1)
    /\ tnow[1] = Some(1)
    /\ TokenClaims(1).exp = 1
    /\ Authenticated(1)

\* a token with exp = 1 was validated in second 2 and rejected
C20_WitnessLate ==
    /\ SignedToken(1)
    /\ tnow[1] = Some(2)
    /\ TokenClaims(1).exp = 1
    /\ Rejected(1)

\* C18: an empty repos list grants no repository, unlike an empty prefixes
\* list: for Claims with repos = [] has_token_repo(repo) fails with
\* NotEnoughPermissions for every repo, while for the same Claims with
\* prefixes = [] has_token_prefix(id) succeeds for every id.
C18_EmptyReposGrantNothing ==
    \A r \in Reqs :
        IsSome(ext[r]) =>
            /\ (chk[r].op = "has_token_repo" /\ ext[r].val.repos = <<>>) =>
                  /\ chk[r].called
                  /\ IsErr(chk[r].ret)
                  /\ chk[r].ret.err.kind = "NotEnoughPermissions"
            /\ (chk[r].op = "has_token_prefix" /\ ext[r].val.prefixes = <<>>) =>
                  (chk[r].called /\ chk[r].ret = OkUnit)
            /\ (ext[r].val.repos = <<>> /\ ext[r].val.prefixes = <<>>) =>
                  /\ \A repo \in RepoNames :
                        has_token_repo(ext[r], repo).ret =
                            Err(NotEnoughPermissions(<<"Not matching repo in token">>))
                  /\ \A id \in Ids : has_token_prefix(ext[r], id).ret = OkUnit

\* claims with neither prefixes nor repos were refused the repo "stable"
C18_Witness ==
    /\ IsSome(ext[1])
    /\ ext[1].val.repos = <<>>
    /\ ext[1].val.prefixes = <<>>
    /\ chk[1].op = "has_token_repo"
    /\ chk[1].args = << <<"b">> >>
    /\ IsErr(chk[1].ret)

\* the same claims were granted the id "org.foo"
C18_WitnessPrefix ==
    /\ IsSome(ext[1])
    /\ ext[1].val.repos = <<>>
    /\ ext[1].val.prefixes = <<>>
    /\ chk[1].op = "has_token_prefix"
    /\ chk[1].args = << <<"b", ".", "x">> >>
    /\ IsOk(chk[1].ret)

\* the text of a header before its first space is exactly "Bearer"
SchemeIsBearer(header) == header = Bearer \/ StartsWithThen(header, Bearer, " ")

\* parse_authorization must refuse the header: too short, or another scheme
MustRefuse(header) == Len(header) < 8 \/ ~SchemeIsBearer(header)

\* C15 as stated: the headers refused carry the error kind MalformedHeader,
\* distinct from InvalidToken.
C15_Original ==
    pure.fn = "parse_authorization" =>
        /\ MustRefuse(pure.b) =>
              /\ IsErr(pure.ret)
              /\ pure.ret.err.kind = "MalformedHeader"
              /\ pure.ret.err.kind # "InvalidToken"
        /\ IsOk(pure.ret) => (StartsWithThen(pure.b, Bearer, " ") /\ Len(pure.b) >= 8)

\* C15 (amended): parse_authorization rejects, with an InvalidToken error (the
\* kind also used for signature and structure failures), every header value
\* shorter than 8 characters and every header whose text before the first
\* space is not exactly "Bearer"; it returns a token only for headers of the
\* form "Bearer " followed by at least one character.
C15_RejectsOtherHeaders ==
    pure.fn = "parse_authorization" =>
        /\ MustRefuse(pure.b) =>
              /\ IsErr(pure.ret)
              /\ pure.ret.err.kind = "InvalidToken"
              /\ Len(pure.b) < 8 =>
                    pure.ret.err.msg = <<"Header length too short">>
        /\ IsOk(pure.ret) => (StartsWithThen(pure.b, Bearer, " ") /\ Len(pure.b) >= 8)

\* the header "bearer pt" was refused for its scheme
C15_Witness ==
    /\ pure.fn = "parse_authorization"
    /\ pure.b = <<"b", "e", "a", "r", "e", "r", " ", "p", "t">>
    /\ pure.ret = Err(InvalidToken(<<"Token scheme is not Bearer">>))

\* the header "Bearer " (seven characters) was refused for its length
C15_WitnessShort ==
    /\ pure.fn = "parse_authorization"
    /\ pure.b = Bearer \o <<" ">>
    /\ pure.ret = Err(InvalidToken(<<"Header length too short">>))

\* C16: for an accepted header "Bearer <t>", parse_authorization returns t
\* unchanged when no prefix is configured or when t does not begin with the
\* configured prefix, and returns t with exactly one leading occurrence of the
\* prefix removed when t begins with it (a second occurrence is kept; the
\* result may be empty when t equals the prefix).
C16_StripsPrefixOnce ==
    (pure.fn = "parse_authorization" /\ IsOk(pure.ret)) =>
        LET t == SubSeq(pure.b, Len(Bearer) + 2, Len(pure.b))
            prefix == pure.a IN
        /\ pure.b = Bearer \o <<" ">> \o t
        /\ IF ~IsSome(prefix) THEN pure.ret.val = t
           ELSE IF ~StartsWith(t, prefix.val) THEN pure.ret.val = t
           ELSE /\ prefix.val \o pure.ret.val = t
                /\ Len(pure.ret.val) = Len(t) - Len(prefix.val)

\* "Bearer ppt" under the prefix "p" gave "pt": the second "p" was kept
C16_Witness ==
    /\ pure.fn = "parse_authorization"
    /\ pure.a = Some(<<"p">>)
    /\ pure.b = Bearer \o <<" ", "p", "p", "t">>
    /\ pure.ret = Ok(<<"p", "t">>)

\* C19: subject matching is a hierarchy: sub_has_prefix is reflexive and
\* transitive, so for two Claims that differ only in sub, where the narrower
\* sub is matched by the broader one, every has_token_claims(required_sub,
\* scope) call that succeeds with the narrower sub also succeeds with the
\* broader sub.
C19_SubjectHierarchy ==
    pure.fn = "hierarchy" =>
        /\ pure.ret.refl = <<TRUE, TRUE, TRUE>>
        /\ (pure.ret.ab /\ pure.ret.bc) => pure.ret.ac
        /\ (pure.ret.bc /\ IsOk(pure.ret.narrow)) => IsOk(pure.ret.broad)
        /\ IsOk(pure.ret.narrow) => pure.ret.ab

\* "b/b/b" was required: Claims for "b/b" grant it, and so do Claims for "b"
C19_Witness ==
    /\ pure.fn = "hierarchy"
    /\ pure.c = <<"b">>
    /\ pure.b = <<"b", "/", "b">>
    /\ pure.a = <<"b", "/", "b", "/", "b">>
    /\ pure.ret.bc
    /\ IsOk(pure.ret.narrow)
    /\ IsOk(pure.ret.broad)

\* the request reached the service with no Claims inserted
Unauthenticated(r) == handled[r] /\ ext[r] = None

\* what r ended with: the error response, or the service with or without Claims
OutcomeOf(r) ==
    IF Rejected(r) THEN Err(resp[r].err)
    ELSE IF Authenticated(r) THEN Ok(ext[r])
    ELSE Ok(None)

\* no request has Claims other than those of its own token attached
C14_OwnClaims ==
    \A r \in Reqs :
        IsSome(ext[r]) => (SignedToken(r) /\ ext[r].val = TokenClaims(r))

\* C14 as stated: the final outcome of a request depends only on its own
\* header, the mode, the secret and prefix and the store's answer for its own
\* jti, so two finished requests that agree on these end alike; and no
\* request has another request's Claims attached.
C14_Original ==
    /\ C14_OwnClaims
    /\ \A r1, r2 \in Reqs :
          ( /\ pc[r1] = "done" /\ pc[r2] = "done"
            /\ hdr[r1] = hdr[r2]
            /\ dbret[r1] = dbret[r2] ) =>
              OutcomeOf(r1) = OutcomeOf(r2)

\* the outcome of every request is the one its own header, the configuration,
\* its own clock reading and the store's answer to it determine
C14_OutcomeIsOwn ==
    /\ C14_OwnClaims
    /\ \A r \in Reqs :
          LET own == PipelineResult(inner.optional, inner.prefix, inner.secret,
                                    hdr[r], NowOf(r), AnswerOf(r)) IN
          /\ IsSome(res[r]) => res[r].val = own
          /\ pc[r] = "done" =>
                /\ OutcomeOf(r) = own
                /\ Rejected(r) \/ Authenticated(r) \/ Unauthenticated(r)

\* handling a request leaves the secret, prefix and mode, and the headers of
\* all requests, as they were
C14_ConfigReadOnly == inner' = inner /\ hdr' = hdr

\* C14 (amended): requests are validated independently under any
\* interleaving: each request's final outcome depends only on its own header,
\* the mode, the shared secret and prefix, the clock reading taken when its
\* own token is validated and the store's answer for its own jti; no request
\* ever has another request's Claims attached; and the secret, prefix and
\* mode are never modified by handling a request.
C14_Independent ==
    /\ []C14_OutcomeIsOwn
    /\ [][C14_ConfigReadOnly]_vars

\* two requests with different jti were both suspended at the lookup, the
\* second was resumed first, and each ended with its own Claims
C14_Witness ==
    /\ hdr[1] = Some(Bearer \o <<" ", "s", "1", "j", "u">>)
    /\ hdr[2] = Some(Bearer \o <<" ", "s", "1", "k", "u">>)
    /\ Authenticated(1) /\ ext[1].val.jti = Some("j")
    /\ Authenticated(2) /\ ext[2].val.jti = Some("k")
    /\ pc[1] = "done" /\ pc[2] = "done"

\* the second request is at the service while the first still awaits the store
C14_WitnessInterleaved ==
    /\ pc[1] = "lookup"
    /\ pc[2] = "handler"
    /\ IsSome(ext[2])
    /\ IsSome(ext[2].val.jti)

====
